---------------------------- MODULE Spec2Model ----------------------------
(***************************************************************************)
(* rustamath_physics: the equation catalog (EQUATIONS), the unit filter    *)
(* (find_equation_by_units), the chi-squared scoring (goodness_of_fit) and *)
(* the parallel regression driver (find_equation).                         *)
(*                                                                         *)
(* Catalog indices are the 0-based indices of the Rust array; a TLA+       *)
(* sequence is 1-based, so entry i of the catalog is EQUATIONS[i + 1].     *)
(***************************************************************************)
EXTENDS Integers, Sequences, FiniteSets, TLC

VARIABLES
    unit_inputs,   \* argument unit_inputs / inputs of the unit query
    unit_outputs,  \* argument unit_outputs / outputs of the unit query
    inputs,        \* argument inputs: flat array of measured inputs
    outputs,       \* argument outputs: flat array of measured outputs
    ssigmas,       \* argument ssigmas of goodness_of_fit
    eq_id,         \* argument id of goodness_of_fit
    pc,            \* position of the calling (main) thread
    ids,           \* find_equation: local ids
    ths,           \* find_equation: local ths, the spawned scoped threads
    done_order,    \* history: the workers in the order they finished
    eqs,           \* find_equation: local eqs
    ret,           \* what the called function returned
    amoeba_min,    \* the minimum rustamath_mnmz::amoeba finds, per catalog index
    sort_ties,     \* how slice::sort_unstable_by leaves equal elements
    typeid,        \* argument typeid of get_equation_by_typeid
    make_cns,      \* argument cns of EquationMaker::make
    eq_instance,   \* the Box<dyn Equation> a caller made
    runs           \* history: the calls of equation.run, input and result

\* the arguments of the call
args == <<unit_inputs, unit_outputs, inputs, outputs, ssigmas, eq_id, typeid,
         make_cns>>

\* the behaviour of the library routines during the call
oracles == <<amoeba_min, sort_ties>>

\* the equation instance of the caller
made == <<eq_instance, runs>>

vars == <<args, oracles, made, pc, ids, ths, done_order, eqs, ret>>

-----------------------------------------------------------------------------
(* Bounds of the model.                                                    *)

\* longest unit sequence of a unit query
MaxUnitLen == 2

\* largest number of measurements in inputs / outputs / ssigmas
MaxM == 2

-----------------------------------------------------------------------------
(* f64.  A finite value is an exact fraction <<n, d>> in lowest terms with *)
(* d > 0; <<1, 0>> is +inf, <<-1, 0>> is -inf and <<0, 0>> is NaN.  The   *)
(* values of the model are small, so no rounding happens; the special      *)
(* values follow IEEE-754 (signed zeros are not told apart).               *)

NaN == <<0, 0>>

Inf == <<1, 0>>

NegInf == <<-1, 0>>

Abs(x) == IF x < 0 THEN -x ELSE x

Sign(x) == IF x < 0 THEN -1 ELSE IF x > 0 THEN 1 ELSE 0

RECURSIVE GCD(_, _)
GCD(a, b) == IF b = 0 THEN a ELSE GCD(b, a % b)

\* the fraction n/d, d # 0, in lowest terms
Rat(n, d) ==
    LET s == IF d < 0 THEN -1 ELSE 1
        g == GCD(Abs(n), Abs(d))
    IN  <<(s * n) \div g, (s * d) \div g>>

F(n) == <<n, 1>>

IsNaN(x) == x = NaN

IsInf(x) == x[2] = 0 /\ x[1] # 0

IsFinite(x) == x[2] > 0

FNeg(a) == <<-a[1], a[2]>>

FAdd(a, b) ==
    IF IsNaN(a) \/ IsNaN(b) THEN NaN
    ELSE IF IsInf(a) /\ IsInf(b) THEN (IF a = b THEN a ELSE NaN)
    ELSE IF IsInf(a) THEN a
    ELSE IF IsInf(b) THEN b
    ELSE Rat(a[1] * b[2] + b[1] * a[2], a[2] * b[2])

FSub(a, b) == FAdd(a, FNeg(b))

FMul(a, b) ==
    IF IsNaN(a) \/ IsNaN(b) THEN NaN
    ELSE IF IsInf(a) \/ IsInf(b)
         THEN (IF a[1] = 0 \/ b[1] = 0 THEN NaN
               ELSE <<Sign(a[1]) * Sign(b[1]), 0>>)
    ELSE Rat(a[1] * b[1], a[2] * b[2])

FDiv(a, b) ==
    IF IsNaN(a) \/ IsNaN(b) THEN NaN
    ELSE IF IsInf(a) THEN (IF IsInf(b) THEN NaN
                           ELSE <<a[1] * (IF b[1] < 0 THEN -1 ELSE 1), 0>>)
    ELSE IF IsInf(b) THEN F(0)
    ELSE IF b[1] = 0 THEN (IF a[1] = 0 THEN NaN ELSE <<Sign(a[1]), 0>>)
    ELSE Rat(a[1] * b[2], a[2] * b[1])

\* f64::partial_cmp: "None" when either side is NaN
partial_cmp(a, b) ==
    IF IsNaN(a) \/ IsNaN(b) THEN "None"
    ELSE IF a = b THEN "Equal"
    ELSE IF IsInf(a) THEN (IF a[1] < 0 THEN "Less" ELSE "Greater")
    ELSE IF IsInf(b) THEN (IF b[1] < 0 THEN "Greater" ELSE "Less")
    ELSE IF a[1] * b[2] < b[1] * a[2] THEN "Less" ELSE "Greater"

\* usize as f64
AsF64(n) == F(n)

-----------------------------------------------------------------------------
(* rustamath_mks unit tags.  MASS_UNIT is a tag no catalog entry uses.     *)

MksUnits == {"DISTANCE_UNIT", "AREA_UNIT", "SCALAR_UNIT", "VELOCITY_UNIT",
             "ACCEL_UNIT", "TIME_UNIT", "MASS_UNIT"}

\* ParamsUnit of each equation: the PARAMS constants of the equation types
CirclePerimeter_PARAMS ==
    [out |-> <<"DISTANCE_UNIT">>, cns |-> <<>>, inp |-> <<"DISTANCE_UNIT">>]

CircleArea_PARAMS ==
    [out |-> <<"AREA_UNIT">>, cns |-> <<>>, inp |-> <<"DISTANCE_UNIT">>]

SquarePerimeter_PARAMS ==
    [out |-> <<"DISTANCE_UNIT">>, cns |-> <<>>, inp |-> <<"DISTANCE_UNIT">>]

SquareArea_PARAMS ==
    [out |-> <<"AREA_UNIT">>, cns |-> <<>>, inp |-> <<"DISTANCE_UNIT">>]

Sine_PARAMS ==
    [out |-> <<"SCALAR_UNIT">>,
     cns |-> <<"SCALAR_UNIT", "SCALAR_UNIT", "SCALAR_UNIT", "SCALAR_UNIT">>,
     inp |-> <<"SCALAR_UNIT">>]

\* function/wave.rs holds a second type Sine and a type Sawtooth; no catalog
\* entry refers to them
wave_Sine_PARAMS ==
    [out |-> <<"SCALAR_UNIT">>,
     cns |-> <<"SCALAR_UNIT", "SCALAR_UNIT", "SCALAR_UNIT", "SCALAR_UNIT">>,
     inp |-> <<"SCALAR_UNIT">>]

Sawtooth_PARAMS ==
    [out |-> <<"SCALAR_UNIT">>,
     cns |-> <<"SCALAR_UNIT", "SCALAR_UNIT", "SCALAR_UNIT", "SCALAR_UNIT">>,
     inp |-> <<"SCALAR_UNIT">>]

\* mutant: the velocity equation has the single constant v0
VELOCITY_EQ_PARAMS_one_constant ==
    [out |-> <<"VELOCITY_UNIT">>, cns |-> <<"VELOCITY_UNIT">>,
     inp |-> <<"TIME_UNIT">>]

VELOCITY_EQ_PARAMS ==
    [out |-> <<"VELOCITY_UNIT">>, cns |-> <<"VELOCITY_UNIT", "ACCEL_UNIT">>,
     inp |-> <<"TIME_UNIT">>]

VELOCITY_BY_DIST_EQ_PARAMS ==
    [out |-> <<"VELOCITY_UNIT">>, cns |-> <<"VELOCITY_UNIT", "ACCEL_UNIT">>,
     inp |-> <<"DISTANCE_UNIT">>]

DISTANCE_EQ_PARAMS ==
    [out |-> <<"DISTANCE_UNIT">>, cns |-> <<"VELOCITY_UNIT", "ACCEL_UNIT">>,
     inp |-> <<"TIME_UNIT">>]

DISTANCE_BY_VEL_EQ_PARAMS ==
    [out |-> <<"DISTANCE_UNIT">>, cns |-> <<"VELOCITY_UNIT", "VELOCITY_UNIT">>,
     inp |-> <<"TIME_UNIT">>]

\* The catalog.  params names the fn params() of the entry (a function
\* pointer), new names its fn make().
EQUATIONS == <<
    [desc |-> "Circumference of circle C = 2*Pi*r",
     params |-> "figure::circle::CirclePerimeter::params",
     new |-> "figure::circle::CirclePerimeter::make"],
    [desc |-> "Area of circle A = Pi*r^2",
     params |-> "figure::circle::CircleArea::params",
     new |-> "figure::circle::CircleArea::make"],
    [desc |-> "Perimeter of square P = 4*side",
     params |-> "figure::rectangle::SquarePerimeter::params",
     new |-> "figure::rectangle::SquarePerimeter::make"],
    [desc |-> "Area of square A = side*side",
     params |-> "figure::rectangle::SquareArea::params",
     new |-> "figure::rectangle::SquareArea::make"],
    [desc |-> "Sine wave v = A*sin(Speed*t + Phase) + Offset",
     params |-> "function::sin::Sine::params",
     new |-> "function::sin::Sine::make"],
    [desc |-> "Linear motion const accel velocity v = v0 + a*t",
     params |-> "mechanics::linear_motion::const_accel::VelocityEquation::params",
     new |-> "mechanics::linear_motion::const_accel::VelocityEquation::make"],
    [desc |-> "Linear motion const accel velocity v = sqrt(v0^2 + 2*a*s)",
     params |-> "mechanics::linear_motion::const_accel::VelocityByDistEquation::params",
     new |-> "mechanics::linear_motion::const_accel::VelocityByDistEquation::make"],
    [desc |-> "Linear motion const accel distance s = v0*t + (a*t^2)/2",
     params |-> "mechanics::linear_motion::const_accel::DistanceEquation::params",
     new |-> "mechanics::linear_motion::const_accel::DistanceEquation::make"],
    [desc |-> "Linear motion const accel distance s = t*(v0 + v)/2",
     params |-> "mechanics::linear_motion::const_accel::DistanceByVelEquation::params",
     new |-> "mechanics::linear_motion::const_accel::DistanceByVelEquation::make"] >>

\* calling a fn params(): (&PARAMS.out, &PARAMS.cns, &PARAMS.inp)
CallParams(f) ==
    CASE f = "figure::circle::CirclePerimeter::params" -> CirclePerimeter_PARAMS
      [] f = "figure::circle::CircleArea::params" -> CircleArea_PARAMS
      [] f = "figure::rectangle::SquarePerimeter::params" -> SquarePerimeter_PARAMS
      [] f = "figure::rectangle::SquareArea::params" -> SquareArea_PARAMS
      [] f = "function::sin::Sine::params" -> Sine_PARAMS
      [] f = "function::wave::Sine::params" -> wave_Sine_PARAMS
      [] f = "function::wave::Sawtooth::params" -> Sawtooth_PARAMS
      [] f = "mechanics::linear_motion::const_accel::VelocityEquation::params"
            -> VELOCITY_EQ_PARAMS
      [] f = "mechanics::linear_motion::const_accel::VelocityByDistEquation::params"
            -> VELOCITY_BY_DIST_EQ_PARAMS
      [] f = "mechanics::linear_motion::const_accel::DistanceEquation::params"
            -> DISTANCE_EQ_PARAMS
      [] f = "mechanics::linear_motion::const_accel::DistanceByVelEquation::params"
            -> DISTANCE_BY_VEL_EQ_PARAMS

\* the valid catalog indices, 0 .. N-1
CatalogIndices == 0 .. (Len(EQUATIONS) - 1)

\* (EQUATIONS[i].params)()
Signature(i) == CallParams(EQUATIONS[i + 1].params)

-----------------------------------------------------------------------------
(* find_equation_by_units                                                  *)

\* PartialEq of two slices: same length and equal element by element
SliceEq(a, b) ==
    /\ Len(a) = Len(b)
    /\ \A k \in 1 .. Len(a) : a[k] = b[k]

\* the loop "for (index, eq) in EQUATIONS.iter().enumerate()", from index on
RECURSIVE FindScan(_, _, _, _)
FindScan(index, found, qinputs, qoutputs) ==
    IF index >= Len(EQUATIONS) THEN found
    ELSE LET p == Signature(index)
         IN  FindScan(index + 1,
                      IF SliceEq(p.out, qoutputs) /\ SliceEq(p.inp, qinputs)
                      THEN Append(found, index) ELSE found,
                      qinputs, qoutputs)

\* mutant: the inputs are not compared
RECURSIVE FindScanOutOnly(_, _, _, _)
FindScanOutOnly(index, found, qinputs, qoutputs) ==
    IF index >= Len(EQUATIONS) THEN found
    ELSE LET p == Signature(index)
         IN  FindScanOutOnly(index + 1,
                      IF SliceEq(p.out, qoutputs)
                      THEN Append(found, index) ELSE found,
                      qinputs, qoutputs)

\* mutant: the scan stops at the first match
RECURSIVE FindScanFirst(_, _, _, _)
FindScanFirst(index, found, qinputs, qoutputs) ==
    IF index >= Len(EQUATIONS) \/ Len(found) > 0 THEN found
    ELSE LET p == Signature(index)
         IN  FindScanFirst(index + 1,
                      IF SliceEq(p.out, qoutputs) /\ SliceEq(p.inp, qinputs)
                      THEN Append(found, index) ELSE found,
                      qinputs, qoutputs)

\* mutant: a match is put at the front of the list
RECURSIVE FindScanFront(_, _, _, _)
FindScanFront(index, found, qinputs, qoutputs) ==
    IF index >= Len(EQUATIONS) THEN found
    ELSE LET p == Signature(index)
         IN  FindScanFront(index + 1,
                      IF SliceEq(p.out, qoutputs) /\ SliceEq(p.inp, qinputs)
                      THEN <<index>> \o found ELSE found,
                      qinputs, qoutputs)

find_equation_by_units_out_only(qinputs, qoutputs) ==
    FindScanOutOnly(0, <<>>, qinputs, qoutputs)

find_equation_by_units_first(qinputs, qoutputs) ==
    FindScanFirst(0, <<>>, qinputs, qoutputs)

find_equation_by_units_front(qinputs, qoutputs) ==
    FindScanFront(0, <<>>, qinputs, qoutputs)

find_equation_by_units(qinputs, qoutputs) ==
    FindScan(0, <<>>, qinputs, qoutputs)

-----------------------------------------------------------------------------
(* get_equation_by_typeid.  A function pointer is the path of the fn item   *)
(* it points to: two pointers are equal exactly when they point to the same *)
(* item (the build folds no two functions into one address).                *)

None == [kind |-> "None"]

Some(v) == [kind |-> "Some", val |-> v]

\* mutant: the entry is recognised by the signature its params() returns
RECURSIVE TypeidScanBySignature(_, _)
TypeidScanBySignature(index, f) ==
    IF index >= Len(EQUATIONS) THEN None
    ELSE IF CallParams(f) = CallParams(EQUATIONS[index + 1].params)
         THEN Some(index)
         ELSE TypeidScanBySignature(index + 1, f)

get_equation_by_typeid_by_signature(f) == TypeidScanBySignature(0, f)

\* the loop "for (index, eq) in EQUATIONS.iter().enumerate()", from index on
RECURSIVE TypeidScan(_, _)
TypeidScan(index, f) ==
    IF index >= Len(EQUATIONS) THEN None
    ELSE IF f = EQUATIONS[index + 1].params THEN Some(index)
         ELSE TypeidScan(index + 1, f)

get_equation_by_typeid(f) == TypeidScan(0, f)

-----------------------------------------------------------------------------
(* The equations: EquationMaker::make and Equation::run of each catalog    *)
(* entry.  The values of MksVal fields are modelled, their unit tags are   *)
(* fixed per field.  std::f64::consts::PI is the fraction 22/7 here, sin   *)
(* is the piecewise linear function through sin's values at multiples of   *)
(* PI/2, and sqrt is rounded down to the denominator of its argument.      *)

PI == Rat(22, 7)

\* floor of a finite fraction
Floor(x) == x[1] \div x[2]

\* f64::sin
FSin(x) ==
    IF ~IsFinite(x) THEN NaN
    ELSE LET two_pi == FMul(F(2), PI)
             half_pi == FDiv(PI, F(2))
             y == FSub(x, FMul(two_pi, F(Floor(FDiv(x, two_pi)))))
             q == FDiv(y, half_pi)
         IN  IF partial_cmp(q, F(1)) # "Greater" THEN q
             ELSE IF partial_cmp(q, F(3)) # "Greater" THEN FSub(F(2), q)
             ELSE FSub(q, F(4))

RECURSIVE ISqrtFrom(_, _)
ISqrtFrom(r, n) == IF (r + 1) * (r + 1) > n THEN r ELSE ISqrtFrom(r + 1, n)

\* f64::sqrt
FSqrt(x) ==
    IF IsNaN(x) THEN NaN
    ELSE IF IsInf(x) THEN (IF x[1] > 0 THEN Inf ELSE NaN)
    ELSE IF x[1] < 0 THEN NaN
    ELSE Rat(ISqrtFrom(0, x[1] * x[2]), x[2])

Panic(why) == [kind |-> "panic", why |-> why]

\* (EQUATIONS[i].new)(cns): the instance, or a panic where make indexes cns
\* out of bounds
Make(new, cns) ==
    CASE new = "figure::circle::CirclePerimeter::make" ->
            [kind |-> "CirclePerimeter", perimeter |-> F(0), radius |-> F(0)]
      [] new = "figure::circle::CircleArea::make" ->
            [kind |-> "CircleArea", area |-> F(0), radius |-> F(0)]
      [] new = "figure::rectangle::SquarePerimeter::make" ->
            [kind |-> "SquarePerimeter", perimeter |-> F(0), side |-> F(0)]
      [] new = "figure::rectangle::SquareArea::make" ->
            [kind |-> "SquareArea", area |-> F(0), side |-> F(0)]
      [] new = "function::sin::Sine::make" ->
            IF Len(cns) < 4 THEN Panic("index out of bounds")
            ELSE [kind |-> "Sine", output |-> F(0), amplitude |-> cns[1],
                  speed |-> cns[2], phase |-> cns[3], shift |-> cns[4],
                  angle |-> F(0)]
      [] new = "mechanics::linear_motion::const_accel::VelocityEquation::make" ->
            IF Len(cns) < 2 THEN Panic("index out of bounds")
            ELSE [kind |-> "VelocityEquation", velocity |-> F(0),
                  initial_velocity |-> cns[1], acceleration |-> cns[2],
                  time |-> F(0)]
      [] new = "mechanics::linear_motion::const_accel::VelocityByDistEquation::make" ->
            IF Len(cns) < 2 THEN Panic("index out of bounds")
            ELSE [kind |-> "VelocityByDistEquation", velocity |-> F(0),
                  initial_velocity |-> cns[1], acceleration |-> cns[2],
                  distance |-> F(0)]
      [] new = "mechanics::linear_motion::const_accel::DistanceEquation::make" ->
            IF Len(cns) < 2 THEN Panic("index out of bounds")
            ELSE [kind |-> "DistanceEquation", distance |-> F(0),
                  initial_velocity |-> cns[1], acceleration |-> cns[2],
                  time |-> F(0)]
      [] new = "mechanics::linear_motion::const_accel::DistanceByVelEquation::make" ->
            IF Len(cns) < 2 THEN Panic("index out of bounds")
            ELSE [kind |-> "DistanceByVelEquation", distance |-> F(0),
                  initial_velocity |-> cns[1], final_velocity |-> cns[2],
                  time |-> F(0)]

\* calc of each equation type: the instance after calc(x)
Calc(self, x) ==
    CASE self.kind = "CirclePerimeter" ->
            [self EXCEPT !.radius = x,
                         !.perimeter = FMul(FMul(F(2), PI), x)]
      [] self.kind = "CircleArea" ->
            [self EXCEPT !.radius = x, !.area = FMul(FMul(PI, x), x)]
      [] self.kind = "SquarePerimeter" ->
            [self EXCEPT !.side = x, !.perimeter = FMul(F(4), x)]
      [] self.kind = "SquareArea" ->
            [self EXCEPT !.side = x, !.area = FMul(x, x)]
      [] self.kind = "Sine" ->
            [self EXCEPT !.angle = x,
                         !.output = FAdd(FMul(FSin(FAdd(FMul(x, self.speed),
                                                        self.phase)),
                                              self.amplitude),
                                         self.shift)]
      [] self.kind = "VelocityEquation" ->
            [self EXCEPT !.time = x,
                         !.velocity = FAdd(self.initial_velocity,
                                           FMul(self.acceleration, x))]
      [] self.kind = "VelocityByDistEquation" ->
            [self EXCEPT !.distance = x,
                         !.velocity =
                            FSqrt(FAdd(FMul(self.initial_velocity,
                                            self.initial_velocity),
                                       FMul(FMul(F(2), self.acceleration), x)))]
      [] self.kind = "DistanceEquation" ->
            [self EXCEPT !.time = x,
                         !.distance =
                            FAdd(FMul(self.initial_velocity, x),
                                 FDiv(FMul(FMul(self.acceleration, x), x),
                                      F(2)))]
      [] self.kind = "DistanceByVelEquation" ->
            [self EXCEPT !.time = x,
                         !.distance =
                            FMul(FMul(FAdd(self.initial_velocity,
                                           self.final_velocity), x),
                                 Rat(1, 2))]

\* the field run returns after calc
Output(self) ==
    CASE self.kind \in {"CirclePerimeter", "SquarePerimeter"} -> self.perimeter
      [] self.kind \in {"CircleArea", "SquareArea"} -> self.area
      [] self.kind = "Sine" -> self.output
      [] self.kind \in {"VelocityEquation", "VelocityByDistEquation"} ->
            self.velocity
      [] self.kind \in {"DistanceEquation", "DistanceByVelEquation"} ->
            self.distance

\* mutant: run returns the output field as it was before calc
RunStale(self, inp) ==
    IF Len(inp) = 0 THEN Panic("index out of bounds")
    ELSE LET after == Calc(self, inp[1])
         IN  [kind |-> "ok", self |-> after, out |-> <<Output(self)>>]

\* Equation::run: calc(inp[0]) and vec![the output field]; inp[0] panics on
\* an empty slice
Run(self, inp) ==
    IF Len(inp) = 0 THEN Panic("index out of bounds")
    ELSE LET after == Calc(self, inp[1])
         IN  [kind |-> "ok", self |-> after, out |-> <<Output(after)>>]

-----------------------------------------------------------------------------
(* regression::fit::fit and regression::goodness_of_fit.                   *)
(*                                                                         *)
(* rustamath_mnmz::amoeba is a library outside the repository: what it     *)
(* returns for the objective of catalog entry id is amin[id], a vector     *)
(* fixed for the whole call (the fitter is deterministic).                 *)

\* amoeba(fun_chi2, params, 0.1, 1.0e-3, 150) and params.copy_from_slice(&min)
fit_multidimensions(id, params, amin) ==
    IF Len(amin[id]) # Len(params) THEN Panic("copy_from_slice")
    ELSE [kind |-> "ok", params |-> amin[id]]

\* fit: panics for a single parameter
fit(id, params, amin) ==
    IF Len(params) = 1 THEN Panic("fit: params.len() == 1")
    ELSE fit_multidimensions(id, params, amin)

\* the loop that runs the equation on every measurement, from measurement i
RECURSIVE PredictLoop(_, _, _, _, _, _)
PredictLoop(i, equation, predictions, inps, nr_measurements, nr_inp_params) ==
    IF i >= nr_measurements THEN predictions
    ELSE LET input_start_index == i * nr_inp_params
             input_end_index == input_start_index + nr_inp_params
             r == Run(equation, SubSeq(inps, input_start_index + 1,
                                       input_end_index))
         IN  PredictLoop(i + 1, r.self, predictions \o r.out, inps,
                         nr_measurements, nr_inp_params)

\* sigma of one output: 1.0 when ssigmas is empty
SigmaAt(sig, k) == IF Len(sig) = 0 THEN F(1) ELSE sig[k + 1]

\* the double loop that sums chi2, from output (i, j) on
RECURSIVE Chi2Loop(_, _, _, _, _, _, _)
Chi2Loop(i, j, chi2, outs, predictions, sig, shape) ==
    IF i >= shape.nr_measurements THEN chi2
    ELSE IF j >= shape.nr_out_params
         THEN Chi2Loop(i + 1, 0, chi2, outs, predictions, sig, shape)
    ELSE LET output_start_index == i * shape.nr_out_params
             diff == FSub(outs[output_start_index + j + 1],
                          predictions[output_start_index + j + 1])
             sigma == SigmaAt(sig, output_start_index + j)
         IN  Chi2Loop(i, j + 1,
                      FAdd(chi2, FDiv(FMul(diff, diff), FMul(sigma, sigma))),
                      outs, predictions, sig, shape)

\* mutant: the floor of 1 applies only when M < K, so M = K divides by 0
DegreesOfFreedomNoFloor(nr_measurements, nr_cns_params) ==
    IF nr_measurements >= nr_cns_params
    THEN nr_measurements - nr_cns_params ELSE 1

DegreesOfFreedom(nr_measurements, nr_cns_params) ==
    IF nr_measurements > nr_cns_params
    THEN nr_measurements - nr_cns_params ELSE 1

\* equation_constants.resize(nr_cns_params, 1.0)
Ones(n) == [k \in 1 .. n |-> F(1)]

\* mutant: the fitter runs only with more measurements than constants
ScoreFromStrict(id, inps, outs, sig, amin, shape) ==
    LET equation_builder == EQUATIONS[id + 1]
        nr_measurements == shape.nr_measurements
        nr_cns_params == shape.nr_cns_params
        fit_runs == nr_cns_params > 0 /\ nr_measurements > nr_cns_params
        fitted == IF fit_runs THEN fit(id, Ones(nr_cns_params), amin)
                  ELSE [kind |-> "ok", params |-> Ones(nr_cns_params)]
    IN  IF fitted.kind = "panic" THEN fitted
        ELSE LET equation_constants == fitted.params
                 equation == Make(equation_builder.new, equation_constants)
             IN  IF equation.kind = "panic" THEN equation
                 ELSE LET predictions ==
                              PredictLoop(0, equation, <<>>, inps,
                                          nr_measurements,
                                          shape.nr_inp_params)
                      IN  IF shape.nr_out_params # 1
                          THEN Panic("assert nr_out_params == 1")
                          ELSE LET chi2 == Chi2Loop(0, 0, F(0), outs,
                                                    predictions, sig, shape)
                                   degrees_of_freedom ==
                                       DegreesOfFreedom(nr_measurements,
                                                        nr_cns_params)
                               IN  [kind |-> "ok",
                                    val |-> FDiv(chi2,
                                                 AsF64(degrees_of_freedom)),
                                    fit_called |-> fit_runs,
                                    constants |-> equation_constants,
                                    predictions |-> predictions]

\* goodness_of_fit from the fit on, once the arrays have been validated.
\* The record returned keeps, beside the value, whether the fitter ran and
\* the constants the scored instance was built from.
ScoreFrom(id, inps, outs, sig, amin, shape) ==
    LET equation_builder == EQUATIONS[id + 1]
        nr_measurements == shape.nr_measurements
        nr_cns_params == shape.nr_cns_params
        fit_runs == nr_cns_params > 0 /\ nr_measurements >= nr_cns_params
        fitted == IF fit_runs THEN fit(id, Ones(nr_cns_params), amin)
                  ELSE [kind |-> "ok", params |-> Ones(nr_cns_params)]
    IN  IF fitted.kind = "panic" THEN fitted
        ELSE LET equation_constants == fitted.params
                 equation == Make(equation_builder.new, equation_constants)
             IN  IF equation.kind = "panic" THEN equation
                 ELSE LET predictions ==
                              PredictLoop(0, equation, <<>>, inps,
                                          nr_measurements,
                                          shape.nr_inp_params)
                      IN  IF shape.nr_out_params # 1
                          THEN Panic("assert nr_out_params == 1")
                          ELSE LET chi2 == Chi2Loop(0, 0, F(0), outs,
                                                    predictions, sig, shape)
                                   degrees_of_freedom ==
                                       DegreesOfFreedom(nr_measurements,
                                                        nr_cns_params)
                               IN  [kind |-> "ok",
                                    val |-> FDiv(chi2,
                                                 AsF64(degrees_of_freedom)),
                                    fit_called |-> fit_runs,
                                    constants |-> equation_constants,
                                    predictions |-> predictions]

\* mutant: the assertion accepts an ssigmas longer than outputs
goodness_of_fit_long_sigmas(id, inps, outs, sig, amin) ==
    IF id >= Len(EQUATIONS) THEN Panic("index out of bounds")
    ELSE LET p == Signature(id)
             nr_out_params == Len(p.out)
             nr_cns_params == Len(p.cns)
             nr_inp_params == Len(p.inp)
         IN  IF ~(Len(sig) = 0 \/ Len(sig) >= Len(outs))
             THEN Panic("assert ssigmas")
             ELSE IF nr_inp_params = 0 THEN Panic("division by zero")
             ELSE LET nr_measurements == Len(inps) \div nr_inp_params
                  IN  IF nr_out_params = 0 THEN Panic("division by zero")
                      ELSE IF Len(outs) \div nr_out_params # nr_measurements
                      THEN Panic("assert_eq nr_measurements")
                      ELSE ScoreFrom(id, inps, outs, sig, amin,
                                     [nr_measurements |-> nr_measurements,
                                      nr_out_params |-> nr_out_params,
                                      nr_cns_params |-> nr_cns_params,
                                      nr_inp_params |-> nr_inp_params])

\* goodness_of_fit(id, inputs, outputs, ssigmas): [kind |-> "ok", val |-> the
\* reduced chi2, ...] or a panic
goodness_of_fit(id, inps, outs, sig, amin) ==
    IF id >= Len(EQUATIONS) THEN Panic("index out of bounds")
    ELSE LET p == Signature(id)
             nr_out_params == Len(p.out)
             nr_cns_params == Len(p.cns)
             nr_inp_params == Len(p.inp)
         IN  IF ~(Len(sig) = 0 \/ Len(sig) = Len(outs))
             THEN Panic("assert ssigmas")
             ELSE IF nr_inp_params = 0 THEN Panic("division by zero")
             ELSE LET nr_measurements == Len(inps) \div nr_inp_params
                  IN  IF nr_out_params = 0 THEN Panic("division by zero")
                      ELSE IF Len(outs) \div nr_out_params # nr_measurements
                      THEN Panic("assert_eq nr_measurements")
                      ELSE ScoreFrom(id, inps, outs, sig, amin,
                                     [nr_measurements |-> nr_measurements,
                                      nr_out_params |-> nr_out_params,
                                      nr_cns_params |-> nr_cns_params,
                                      nr_inp_params |-> nr_inp_params])

-----------------------------------------------------------------------------
(* Idle values of the variables an entry point does not use.               *)

NoRet == [kind |-> "none"]

\* no function pointer
NoFn == "none"

\* the unit sequences of a query: every sequence of at most MaxUnitLen tags
UnitSeqs == UNION {[1 .. n -> MksUnits] : n \in 0 .. MaxUnitLen}

\* the indices of a list, as a set
Elems(s) == {s[k] : k \in 1 .. Len(s)}

\* the catalog entries whose signature matches a unit query
Matching(qinputs, qoutputs) ==
    {i \in CatalogIndices :
        Signature(i).out = qoutputs /\ Signature(i).inp = qinputs}

\* the measured values the callers pass
InputVals == {F(0), F(3), NaN}

OutputVals == {F(12), F(18)}

SigmaVals == {F(1), F(2)}

SeqsUpTo(S, n) == UNION {[1 .. m -> S] : m \in 0 .. n}

\* the vectors amoeba may return for a vector of n parameters
AmoebaVals == {F(1), F(2)}

\* the catalog entries among cands that goodness_of_fit fits on inps
Fitted(cands, inps) ==
    {i \in cands :
        /\ i \in CatalogIndices
        /\ Len(Signature(i).cns) > 0
        /\ Len(inps) \div Len(Signature(i).inp) >= Len(Signature(i).cns)}

\* the outcomes of amoeba for the entries of cands fitted on inps
AmoebaOutcomes(cands, inps) ==
    {f \in [Fitted(cands, inps) -> SeqsUpTo(AmoebaVals, 4)] :
        \A i \in Fitted(cands, inps) : Len(f[i]) = Len(Signature(i).cns)}

-----------------------------------------------------------------------------
(* SpecUnits: a caller of find_equation_by_units(inputs, outputs).         *)

UnitsInit ==
    /\ unit_inputs \in UnitSeqs
    /\ unit_outputs \in UnitSeqs
    /\ inputs = <<>>
    /\ outputs = <<>>
    /\ ssigmas = <<>>
    /\ eq_id = 0
    /\ pc = "call"
    /\ ids = <<>>
    /\ ths = <<>>
    /\ done_order = <<>>
    /\ eqs = <<>>
    /\ ret = NoRet
    /\ amoeba_min = <<>>
    /\ sort_ties = "keep"
    /\ typeid = NoFn
    /\ make_cns = <<>>
    /\ eq_instance = NoRet
    /\ runs = <<>>

CallFindEquationByUnits ==
    /\ pc = "call"
    /\ ret' = [kind |-> "ids",
               val |-> find_equation_by_units(unit_inputs, unit_outputs)]
    /\ pc' = "returned"
    /\ UNCHANGED <<args, oracles, made, ids, ths, done_order, eqs>>

UnitsNext == CallFindEquationByUnits

SpecUnits == UnitsInit /\ [][UnitsNext]_vars

-----------------------------------------------------------------------------
(* Claims about find_equation_by_units, checked under SpecUnits.           *)

UnitsReturned == pc = "returned" /\ ret.kind = "ids"

\* C1 (filter soundness): every index find_equation_by_units returns is a
\* valid catalog index whose signature has out equal to the queried outputs
\* and inp equal to the queried inputs, as ordered sequences.
C1_FilterSound ==
    UnitsReturned =>
        \A k \in 1 .. Len(ret.val) :
            /\ ret.val[k] \in CatalogIndices
            /\ Signature(ret.val[k]).out = unit_outputs
            /\ Signature(ret.val[k]).inp = unit_inputs

\* a query matched by two catalog entries has been answered
C1_Witness ==
    /\ UnitsReturned
    /\ Len(ret.val) = 2
    /\ unit_inputs = <<"DISTANCE_UNIT">>
    /\ unit_outputs = <<"AREA_UNIT">>

\* C2 (filter completeness): every catalog index whose signature matches the
\* query appears in the list find_equation_by_units returns.
C2_FilterComplete ==
    UnitsReturned =>
        \A i \in Matching(unit_inputs, unit_outputs) : i \in Elems(ret.val)

\* a query with two matching entries has been answered with both of them
C2_Witness ==
    /\ UnitsReturned
    /\ Cardinality(Matching(unit_inputs, unit_outputs)) = 2
    /\ Cardinality(Elems(ret.val)) = 2

\* C3 (catalog order): the returned list is strictly ascending, so it holds
\* no index twice.
C3_CatalogOrder ==
    UnitsReturned =>
        \A k \in 1 .. (Len(ret.val) - 1) : ret.val[k] < ret.val[k + 1]

\* a list of two indices has been returned
C3_Witness ==
    /\ UnitsReturned
    /\ Len(ret.val) = 2
    /\ unit_inputs = <<"TIME_UNIT">>
    /\ unit_outputs = <<"DISTANCE_UNIT">>

\* the index list documented for each unit query
DocumentedIds(qinputs, qoutputs) ==
    CASE qinputs = <<"TIME_UNIT">> /\ qoutputs = <<"VELOCITY_UNIT">> -> <<5>>
      [] qinputs = <<"DISTANCE_UNIT">> /\ qoutputs = <<"DISTANCE_UNIT">> ->
            <<0, 2>>
      [] qinputs = <<"DISTANCE_UNIT">> /\ qoutputs = <<"AREA_UNIT">> -> <<1, 3>>
      [] qinputs = <<"SCALAR_UNIT">> /\ qoutputs = <<"SCALAR_UNIT">> -> <<4>>
      [] qinputs = <<"DISTANCE_UNIT">> /\ qoutputs = <<"VELOCITY_UNIT">> ->
            <<6>>
      [] qinputs = <<"TIME_UNIT">> /\ qoutputs = <<"DISTANCE_UNIT">> -> <<7, 8>>
      [] OTHER -> <<>>

\* the documented signatures [out, cns, inp] of the entries 0 .. 8
DocumentedSignatures == <<
    [out |-> <<"DISTANCE_UNIT">>, cns |-> <<>>, inp |-> <<"DISTANCE_UNIT">>],
    [out |-> <<"AREA_UNIT">>, cns |-> <<>>, inp |-> <<"DISTANCE_UNIT">>],
    [out |-> <<"DISTANCE_UNIT">>, cns |-> <<>>, inp |-> <<"DISTANCE_UNIT">>],
    [out |-> <<"AREA_UNIT">>, cns |-> <<>>, inp |-> <<"DISTANCE_UNIT">>],
    [out |-> <<"SCALAR_UNIT">>,
     cns |-> <<"SCALAR_UNIT", "SCALAR_UNIT", "SCALAR_UNIT", "SCALAR_UNIT">>,
     inp |-> <<"SCALAR_UNIT">>],
    [out |-> <<"VELOCITY_UNIT">>, cns |-> <<"VELOCITY_UNIT", "ACCEL_UNIT">>,
     inp |-> <<"TIME_UNIT">>],
    [out |-> <<"VELOCITY_UNIT">>, cns |-> <<"VELOCITY_UNIT", "ACCEL_UNIT">>,
     inp |-> <<"DISTANCE_UNIT">>],
    [out |-> <<"DISTANCE_UNIT">>, cns |-> <<"VELOCITY_UNIT", "ACCEL_UNIT">>,
     inp |-> <<"TIME_UNIT">>],
    [out |-> <<"DISTANCE_UNIT">>, cns |-> <<"VELOCITY_UNIT", "VELOCITY_UNIT">>,
     inp |-> <<"TIME_UNIT">>] >>

\* C15 (fixed index lists): the catalog has nine entries with the documented
\* signatures in the documented order, and
\* find_equation_by_units answers ([TIME],[VEL]) with [5], ([DIST],[DIST])
\* with [0,2], ([DIST],[AREA]) with [1,3], ([SCALAR],[SCALAR]) with [4],
\* ([DIST],[VEL]) with [6], ([TIME],[DIST]) with [7,8] and every other query
\* with the empty list.
C15_FixedIndexLists ==
    /\ Len(EQUATIONS) = 9
    /\ \A i \in CatalogIndices : Signature(i) = DocumentedSignatures[i + 1]
    /\ UnitsReturned =>
            ret.val = DocumentedIds(unit_inputs, unit_outputs)

\* the query ([TIME],[DIST]) has been answered with the two distance
\* equations
C15_Witness ==
    /\ UnitsReturned
    /\ unit_inputs = <<"TIME_UNIT">>
    /\ unit_outputs = <<"DISTANCE_UNIT">>
    /\ ret.val = <<7, 8>>

-----------------------------------------------------------------------------
(* find_equation: the parallel regression driver.                          *)

\* slice::sort_unstable_by with the comparator
\* |a, b| a.1.partial_cmp(&b.1).unwrap(): the sort is a library routine that
\* may reorder equal elements; ties = "keep" leaves them in their order,
\* ties = "swap" reverses them.  An element is a pair <<index, chi2>>.
RECURSIVE SortInsert(_, _, _)
SortInsert(sorted, x, ties) ==
    IF Len(sorted) = 0 THEN <<x>>
    ELSE LET last == sorted[Len(sorted)]
             c == partial_cmp(x[2], last[2])
         IN  IF c = "Less" \/ (c = "Equal" /\ ties = "swap")
             THEN Append(SortInsert(SubSeq(sorted, 1, Len(sorted) - 1), x,
                                    ties), last)
             ELSE Append(sorted, x)

RECURSIVE SortFrom(_, _, _)
SortFrom(sorted, rest, ties) ==
    IF Len(rest) = 0 THEN sorted
    ELSE SortFrom(SortInsert(sorted, Head(rest), ties), Tail(rest), ties)

\* the comparator unwraps None: with two or more elements every element is
\* compared at least once, so a NaN among them panics
SortPanics(s) == Len(s) >= 2 /\ \E k \in 1 .. Len(s) : IsNaN(s[k][2])

RECURSIVE Reversed(_)
Reversed(s) == IF Len(s) = 0 THEN <<>> ELSE Append(Reversed(Tail(s)), Head(s))

\* mutant: the comparator is b.1.partial_cmp(&a.1), a descending sort
sort_unstable_by_descending(s, ties) ==
    IF SortPanics(s) THEN Panic("partial_cmp(..).unwrap() on None")
    ELSE [kind |-> "list", val |-> Reversed(SortFrom(<<>>, s, ties))]

sort_unstable_by(s, ties) ==
    IF SortPanics(s) THEN Panic("partial_cmp(..).unwrap() on None")
    ELSE [kind |-> "list", val |-> SortFrom(<<>>, s, ties)]

\* the unit sequences the callers of find_equation pass
QueryUnits ==
    {<<>>} \cup {<<u>> : u \in {"DISTANCE_UNIT", "AREA_UNIT", "TIME_UNIT",
                                 "VELOCITY_UNIT", "SCALAR_UNIT"}}

\* let ids = find_equation_by_units(unit_inputs, unit_outputs)
Filter ==
    /\ pc = "filter"
    /\ ids' = find_equation_by_units(unit_inputs, unit_outputs)
    /\ pc' = "spawn"
    /\ UNCHANGED <<args, oracles, made, ths, done_order, eqs, ret>>

\* one turn of "for id in ids.iter()": spawn the worker of the next id
Spawn ==
    /\ pc = "spawn"
    /\ Len(ths) < Len(ids)
    /\ ths' = Append(ths, [id |-> ids[Len(ths) + 1], state |-> "running",
                           result |-> NoRet])
    /\ UNCHANGED <<args, oracles, made, pc, ids, done_order, eqs, ret>>

\* the spawn loop ends
SpawnEnd ==
    /\ pc = "spawn"
    /\ Len(ths) = Len(ids)
    /\ pc' = "join"
    /\ UNCHANGED <<args, oracles, made, ids, ths, done_order, eqs, ret>>

\* mutant: the worker pairs its fit with its position in ids, not with *id
WorkerPosition(k) ==
    /\ k \in 1 .. Len(ths)
    /\ ths[k].state = "running"
    /\ LET r == goodness_of_fit(ths[k].id, inputs, outputs, <<>>, amoeba_min)
       IN  ths' = [ths EXCEPT
                     ![k].state = IF r.kind = "panic" THEN "panicked"
                                  ELSE "finished",
                     ![k].result = IF r.kind = "panic" THEN r
                                   ELSE [kind |-> "ok",
                                         val |-> <<k - 1, r.val>>]]
    /\ done_order' = Append(done_order, k)
    /\ UNCHANGED <<args, oracles, made, pc, ids, eqs, ret>>

\* the closure of worker k: (*id, goodness_of_fit(*id, inputs, outputs, &[]))
Worker(k) ==
    /\ k \in 1 .. Len(ths)
    /\ ths[k].state = "running"
    /\ LET r == goodness_of_fit(ths[k].id, inputs, outputs, <<>>, amoeba_min)
       IN  ths' = [ths EXCEPT
                     ![k].state = IF r.kind = "panic" THEN "panicked"
                                  ELSE "finished",
                     ![k].result = IF r.kind = "panic" THEN r
                                   ELSE [kind |-> "ok",
                                         val |-> <<ths[k].id, r.val>>]]
    /\ done_order' = Append(done_order, k)
    /\ UNCHANGED <<args, oracles, made, pc, ids, eqs, ret>>

\* the handle "for th in ths" joins next
NextJoin == Len(eqs) + 1

\* mutant: the results are collected in the order the workers finish
JoinAsFinished ==
    /\ pc = "join"
    /\ \E k \in 1 .. Len(ths) :
        /\ ths[k].state = "finished"
        /\ eqs' = Append(eqs, ths[k].result.val)
        /\ ths' = [ths EXCEPT ![k].state = "joined"]
    /\ UNCHANGED <<args, oracles, made, pc, ids, done_order, ret>>

\* one turn of "for th in ths": th.join().unwrap() and eqs.push
Join ==
    /\ pc = "join"
    /\ NextJoin <= Len(ths)
    /\ ths[NextJoin].state = "finished"
    /\ eqs' = Append(eqs, ths[NextJoin].result.val)
    /\ ths' = [ths EXCEPT ![NextJoin].state = "joined"]
    /\ UNCHANGED <<args, oracles, made, pc, ids, done_order, ret>>

\* th.join() of a worker that panicked is Err, and unwrap panics: the main
\* thread unwinds out of the scope's closure
JoinPanic ==
    /\ pc = "join"
    /\ NextJoin <= Len(ths)
    /\ ths[NextJoin].state = "panicked"
    /\ ths' = [ths EXCEPT ![NextJoin].state = "joined"]
    /\ pc' = "unwind"
    /\ UNCHANGED <<args, oracles, made, ids, done_order, eqs, ret>>

NoneRunning == \A k \in 1 .. Len(ths) : ths[k].state # "running"

\* the closure of thread::scope ends and the scope returns once every
\* spawned thread has finished
ScopeEnd ==
    /\ pc = "join"
    /\ NextJoin > Len(ths)
    /\ NoneRunning
    /\ pc' = "sort"
    /\ UNCHANGED <<args, oracles, made, ids, ths, done_order, eqs, ret>>

\* mutant: the panic is resumed without waiting for the running workers
ScopePanicNoWait ==
    /\ pc = "unwind"
    /\ pc' = "panicked"
    /\ ret' = Panic("th.join().unwrap()")
    /\ eqs' = <<>>
    /\ UNCHANGED <<args, oracles, made, ids, ths, done_order>>

\* mutant: the panic of a worker is swallowed and the results collected so
\* far are returned
ScopePanicReturnsCollected ==
    /\ pc = "unwind"
    /\ NoneRunning
    /\ pc' = "returned"
    /\ ret' = [kind |-> "list", val |-> eqs]
    /\ UNCHANGED <<args, oracles, made, ids, ths, done_order, eqs>>

\* thread::scope resumes the panic of its closure once every spawned thread
\* has finished; find_equation's locals are dropped
ScopePanic ==
    /\ pc = "unwind"
    /\ NoneRunning
    /\ pc' = "panicked"
    /\ ret' = Panic("th.join().unwrap()")
    /\ eqs' = <<>>
    /\ UNCHANGED <<args, oracles, made, ids, ths, done_order>>

\* eqs.sort_unstable_by(..); eqs
SortAndReturn ==
    /\ pc = "sort"
    /\ LET r == sort_unstable_by(eqs, sort_ties)
       IN  /\ ret' = r
           /\ pc' = IF r.kind = "panic" THEN "panicked" ELSE "returned"
           /\ eqs' = IF r.kind = "panic" THEN <<>> ELSE r.val
    /\ UNCHANGED <<args, oracles, made, ids, ths, done_order>>

Init ==
    /\ unit_inputs \in QueryUnits
    /\ unit_outputs \in QueryUnits
    /\ inputs \in SeqsUpTo(InputVals, MaxM)
    /\ outputs \in SeqsUpTo(OutputVals, MaxM)
    /\ ssigmas = <<>>
    /\ eq_id = 0
    /\ amoeba_min \in AmoebaOutcomes(Matching(unit_inputs, unit_outputs),
                                     inputs)
    /\ sort_ties \in IF Cardinality(Matching(unit_inputs, unit_outputs)) >= 2
                      THEN {"keep", "swap"} ELSE {"keep"}
    /\ pc = "filter"
    /\ ids = <<>>
    /\ ths = <<>>
    /\ done_order = <<>>
    /\ eqs = <<>>
    /\ ret = NoRet
    /\ typeid = NoFn
    /\ make_cns = <<>>
    /\ eq_instance = NoRet
    /\ runs = <<>>

Next ==
    \/ Filter
    \/ Spawn
    \/ SpawnEnd
    \/ \E k \in 1 .. Len(ths) : Worker(k)
    \/ Join
    \/ JoinPanic
    \/ ScopeEnd
    \/ ScopePanic
    \/ SortAndReturn

Spec == Init /\ [][Next]_vars

-----------------------------------------------------------------------------
(* SpecFit: a caller of goodness_of_fit(id, inputs, outputs, ssigmas).     *)

FitInit ==
    /\ unit_inputs = <<>>
    /\ unit_outputs = <<>>
    /\ eq_id \in 0 .. Len(EQUATIONS)
    /\ inputs \in SeqsUpTo(InputVals, MaxM)
    /\ outputs \in SeqsUpTo(OutputVals, MaxM)
    /\ ssigmas \in SeqsUpTo(SigmaVals, MaxM)
    /\ amoeba_min \in AmoebaOutcomes({eq_id}, inputs)
    /\ pc = "call"
    /\ ids = <<>>
    /\ ths = <<>>
    /\ done_order = <<>>
    /\ eqs = <<>>
    /\ ret = NoRet
    /\ sort_ties = "keep"
    /\ typeid = NoFn
    /\ make_cns = <<>>
    /\ eq_instance = NoRet
    /\ runs = <<>>

CallGoodnessOfFit ==
    /\ pc = "call"
    /\ LET r == goodness_of_fit(eq_id, inputs, outputs, ssigmas, amoeba_min)
       IN  /\ ret' = r
           /\ pc' = IF r.kind = "panic" THEN "panicked" ELSE "returned"
    /\ UNCHANGED <<args, oracles, made, ids, ths, done_order, eqs>>

FitNext == CallGoodnessOfFit

SpecFit == FitInit /\ [][FitNext]_vars

-----------------------------------------------------------------------------
(* Claims about goodness_of_fit, checked under SpecFit.                    *)

Max(a, b) == IF a >= b THEN a ELSE b

\* the constants goodness_of_fit ends with: the fitter's when it runs
FinalConstants(id, M) ==
    LET K == Len(Signature(id).cns)
    IN  IF K > 0 /\ M >= K THEN amoeba_min[id] ELSE Ones(K)

\* the prediction of entry id, built afresh from constants c, for input x
Prediction(id, c, x) == Run(Make(EQUATIONS[id + 1].new, c), <<x>>).out[1]

\* sum over the measurements m .. 1 of (residual / sigma)^2, sigma = 1 when
\* sig is empty
RECURSIVE RawChi2(_, _, _, _, _, _)
RawChi2(m, id, c, inps, outs, sig) ==
    IF m = 0 THEN F(0)
    ELSE LET residual == FSub(outs[m], Prediction(id, c, inps[m]))
             term == IF Len(sig) = 0 THEN FMul(residual, residual)
                     ELSE FDiv(FMul(residual, residual),
                               FMul(sig[m], sig[m]))
         IN  FAdd(RawChi2(m - 1, id, c, inps, outs, sig), term)

\* C10 (reduced chi2): for a valid index with K constants and M measurements
\* goodness_of_fit returns the sum of squared residuals (observed output
\* minus the prediction from the final constants), each divided by the
\* square of its sigma when ssigmas is not empty, over max(M - K, 1).
C10_ReducedChi2 ==
    (pc = "returned" /\ ret.kind = "ok") =>
        LET M == Len(inputs) \div Len(Signature(eq_id).inp)
            K == Len(Signature(eq_id).cns)
        IN  ret.val = FDiv(RawChi2(M, eq_id, FinalConstants(eq_id, M),
                                   inputs, outputs, ssigmas),
                           F(Max(M - K, 1)))

\* goodness_of_fit has returned a finite positive value for an entry with as
\* many measurements as constants (divisor 1) and with sigmas given
C10_Witness ==
    /\ pc = "returned"
    /\ ret.kind = "ok"
    /\ Len(inputs) = Len(Signature(eq_id).cns)
    /\ Len(inputs) > 0
    /\ Len(ssigmas) = Len(outputs)
    /\ \E k \in 1 .. Len(ssigmas) : ssigmas[k] # F(1)
    /\ IsFinite(ret.val)
    /\ ret.val[1] > 0

\* the measurement arrays fit the signature of entry id: ssigmas is empty or
\* as long as outputs, inputs divides into Ni-tuples and outputs into
\* No-tuples, and there are as many of the one as of the other
Consistent(id, inps, outs, sig) ==
    LET Ni == Len(Signature(id).inp)
        No == Len(Signature(id).out)
    IN  /\ Len(sig) = 0 \/ Len(sig) = Len(outs)
        /\ Len(inps) % Ni = 0
        /\ Len(outs) % No = 0
        /\ Len(inps) \div Ni = Len(outs) \div No

\* C11 (array validation): goodness_of_fit returns a value only when the
\* measurement arrays are consistent (ssigmas empty or as long as outputs,
\* inputs.len() divisible by Ni, outputs.len() divisible by No, equal
\* quotients); in every other case the call ends in a panic and returns no
\* value.
C11_ConsistentArrays ==
    (pc # "call" /\ eq_id \in CatalogIndices) =>
        /\ pc = "returned" => Consistent(eq_id, inputs, outputs, ssigmas)
        /\ ~Consistent(eq_id, inputs, outputs, ssigmas) =>
                pc = "panicked" /\ ret.kind = "panic"

\* goodness_of_fit has panicked on an ssigmas longer than outputs, the
\* inputs and outputs being of the same length
C11_Witness ==
    /\ pc = "panicked"
    /\ eq_id \in CatalogIndices
    /\ Len(inputs) = Len(outputs)
    /\ Len(ssigmas) > Len(outputs)
    /\ ret = Panic("assert ssigmas")

\* C17 (when the fitter runs): goodness_of_fit calls the fitter exactly when
\* K > 0 and M >= K; when K = 0 or M < K the fitter is not called and the
\* scored instance is made from K constants that are all 1.0.
C17_FitCondition ==
    (pc = "returned" /\ ret.kind = "ok") =>
        LET M == Len(inputs) \div Len(Signature(eq_id).inp)
            K == Len(Signature(eq_id).cns)
        IN  /\ ret.fit_called <=> (K > 0 /\ M >= K)
            /\ (K = 0 \/ M < K) =>
                    /\ ~ret.fit_called
                    /\ Len(ret.constants) = K
                    /\ \A k \in 1 .. K : ret.constants[k] = F(1)

\* goodness_of_fit has returned for an entry with as many measurements as
\* constants, after the fitter moved the constants away from 1.0
C17_Witness ==
    /\ pc = "returned"
    /\ ret.kind = "ok"
    /\ Len(Signature(eq_id).cns) = 2
    /\ Len(inputs) = 2
    /\ ret.fit_called
    /\ ret.constants # Ones(2)

\* the panic of fit for a single parameter and the panic of the assertion
\* nr_out_params == 1
UnreachablePanics ==
    {Panic("fit: params.len() == 1"), Panic("assert nr_out_params == 1")}

\* C21 (unreachable panics): no catalog entry has exactly one constant and
\* every entry has exactly one output unit, so for a valid index and
\* consistent measurement arrays goodness_of_fit never panics in fit's branch
\* for a single parameter nor at the assertion nr_out_params == 1, and no
\* worker of find_equation does.
C21_PanicsUnreachable ==
    /\ \A i \in CatalogIndices :
            Len(Signature(i).cns) # 1 /\ Len(Signature(i).out) = 1
    /\ (/\ pc \in {"returned", "panicked"}
        /\ eq_id \in CatalogIndices
        /\ Consistent(eq_id, inputs, outputs, ssigmas))
       => ret \notin UnreachablePanics
    /\ \A k \in 1 .. Len(ths) : ths[k].result \notin UnreachablePanics

\* goodness_of_fit has called the fitter and got past the assertion
\* nr_out_params == 1 for consistent arrays without sigmas
C21_Witness ==
    /\ pc = "returned"
    /\ ret.kind = "ok"
    /\ eq_id \in CatalogIndices
    /\ Consistent(eq_id, inputs, outputs, ssigmas)
    /\ Len(ssigmas) = 0
    /\ ret.fit_called
    /\ Len(ret.predictions) = Len(outputs)

-----------------------------------------------------------------------------
(* Claims about find_equation, checked under Spec.                         *)

Returned == pc = "returned" /\ ret.kind = "list"

\* every spawned worker came back with a value
AllScored ==
    /\ Len(ths) = Len(ids)
    /\ \A k \in 1 .. Len(ths) :
        ths[k].state \in {"finished", "joined"} /\ ths[k].result.kind = "ok"

\* C4 (result ordering): the list find_equation returns is sorted ascending by
\* reduced chi2: of two adjacent entries the earlier chi2 is less than or equal
\* to the later one.
C4_SortedByChi2 ==
    Returned =>
        \A k \in 1 .. (Len(ret.val) - 1) :
            partial_cmp(ret.val[k][2], ret.val[k + 1][2]) \in {"Less", "Equal"}

\* a list of two entries with different chi2 has been returned, the better
\* fit being the entry of the larger catalog index
C4_Witness ==
    /\ Returned
    /\ Len(ret.val) = 2
    /\ partial_cmp(ret.val[1][2], ret.val[2][2]) = "Less"
    /\ ret.val[1][1] > ret.val[2][1]

\* C5 (tie break), as claimed: of two returned entries with the same chi2 the
\* one with the smaller catalog index comes first.
C5_TiesByIndex ==
    Returned =>
        \A j, k \in 1 .. Len(ret.val) :
            (j < k /\ partial_cmp(ret.val[j][2], ret.val[k][2]) = "Equal")
                => ret.val[j][1] < ret.val[k][1]

\* C6 (NaN does not abort), as claimed: when two or more candidates match, all
\* are scored and some chi2 is NaN, find_equation ends by returning the full
\* list with every NaN entry after every entry that is not NaN.
C6_NaNDoesNotAbort ==
    (/\ pc \in {"returned", "panicked"}
     /\ Len(ids) >= 2
     /\ AllScored
     /\ \E k \in 1 .. Len(ths) : IsNaN(ths[k].result.val[2]))
    => /\ Returned
       /\ Len(ret.val) = Len(ids)
       /\ \A j, k \in 1 .. Len(ret.val) :
            (IsNaN(ret.val[j][2]) /\ ~IsNaN(ret.val[k][2])) => k < j

\* C7 (unit-filter pre-guarantee): when no catalog entry matches the query
\* units, find_equation spawns no worker (so goodness_of_fit is never called),
\* does not panic, and what it returns is the empty list, whatever inputs and
\* outputs hold.
C7_NoMatchEmpty ==
    Matching(unit_inputs, unit_outputs) = {} =>
        /\ ths = <<>>
        /\ done_order = <<>>
        /\ pc \notin {"unwind", "panicked"}
        /\ pc = "returned" => ret = [kind |-> "list", val |-> <<>>]

\* find_equation has returned for a query that matches nothing, called with
\* arrays goodness_of_fit would reject and a NaN among the inputs
C7_Witness ==
    /\ Returned
    /\ Matching(unit_inputs, unit_outputs) = {}
    /\ Len(inputs) > Len(outputs)
    /\ \E k \in 1 .. Len(inputs) : IsNaN(inputs[k])

\* C8 (result content): the catalog indices of the returned list are exactly
\* those matching the query units, each once, and the chi2 paired with index
\* id is the value of goodness_of_fit(id, inputs, outputs, []), in whatever
\* order the workers finished.
C8_ResultContent ==
    Returned =>
        /\ {ret.val[k][1] : k \in 1 .. Len(ret.val)}
             = Matching(unit_inputs, unit_outputs)
        /\ Len(ret.val) = Cardinality(Matching(unit_inputs, unit_outputs))
        /\ \A k \in 1 .. Len(ret.val) :
             ret.val[k][2] =
                goodness_of_fit(ret.val[k][1], inputs, outputs, <<>>,
                                amoeba_min).val

\* a list of two entries has been returned after the second worker finished
\* before the first, the two fits being different
C8_Witness ==
    /\ Returned
    /\ Len(ret.val) = 2
    /\ done_order = <<2, 1>>
    /\ ret.val[1][2] # ret.val[2][2]

\* the pairs (id, goodness_of_fit(id, ..)) of the matching entries, in
\* catalog order
RECURSIVE ScoredFrom(_)
ScoredFrom(i) ==
    IF i >= Len(EQUATIONS) THEN <<>>
    ELSE IF i \in Matching(unit_inputs, unit_outputs)
         THEN <<<<i, goodness_of_fit(i, inputs, outputs, <<>>,
                                     amoeba_min).val>>>> \o ScoredFrom(i + 1)
         ELSE ScoredFrom(i + 1)

\* C9 (determinism): for a fixed catalog and query (and a fixed behaviour of
\* the fitter and of the sort) the list find_equation returns is the same
\* under every interleaving and completion order of the workers: it is the
\* sort of the scored candidates taken in catalog order.
C9_Deterministic ==
    Returned => ret.val = SortFrom(<<>>, ScoredFrom(0), sort_ties)

\* a list of two entries with equal chi2 has been returned after the second
\* worker finished before the first
C9_Witness ==
    /\ Returned
    /\ Len(ret.val) = 2
    /\ done_order = <<2, 1>>
    /\ ret.val[1][2] = ret.val[2][2]

\* C18 (join barrier): one worker is spawned per candidate, in the order of
\* ids; find_equation is past the scope (sorting, returned or panicked) only
\* when no worker is running, and it sorts and returns only after every
\* candidate's worker has finished and been joined.
C18_JoinBarrier ==
    /\ Len(ths) <= Len(ids)
    /\ \A k \in 1 .. Len(ths) : ths[k].id = ids[k]
    /\ pc \in {"sort", "returned", "panicked"} => NoneRunning
    /\ pc \in {"sort", "returned"} =>
            /\ Len(ths) = Len(ids)
            /\ \A k \in 1 .. Len(ths) : ths[k].state = "joined"

\* find_equation is about to sort after joining two workers, of which the
\* second finished first
C18_Witness ==
    /\ pc = "sort"
    /\ Len(ths) = 2
    /\ done_order = <<2, 1>>
    /\ \A k \in 1 .. Len(ths) : ths[k].state = "joined"

\* some worker's goodness_of_fit panicked
WorkerPanicked == \E k \in 1 .. Len(ths) : ths[k].result.kind = "panic"

\* C19 (worker failure): once the goodness_of_fit of some worker has
\* panicked, find_equation never sorts and never returns a list; when it
\* ends, it ends with the panic of th.join().unwrap() and the results it had
\* collected are dropped.
C19_WorkerPanicAborts ==
    WorkerPanicked =>
        /\ pc \notin {"sort", "returned"}
        /\ ret.kind # "list"
        /\ pc = "panicked" =>
                /\ ret = Panic("th.join().unwrap()")
                /\ eqs = <<>>

\* find_equation has panicked at the join of the first of two workers; the
\* second worker panicked too and was never joined
C19_Witness ==
    /\ pc = "panicked"
    /\ Len(ths) = 2
    /\ ths[1].state = "joined"
    /\ ths[1].result.kind = "panic"
    /\ ths[2].state = "panicked"
    /\ ret = Panic("th.join().unwrap()")

\* f64::abs
FAbs(x) == <<Abs(x[1]), x[2]>>

\* |observed output - prediction| of candidate id for the one measurement
AbsResidual(id) ==
    FAbs(FSub(outputs[1], Prediction(id, Ones(Len(Signature(id).cns)),
                                     inputs[1])))

-----------------------------------------------------------------------------
(* SpecEq: a caller that looks an equation up with get_equation_by_typeid, *)
(* unwraps the index, makes an instance with (EQUATIONS[index].new)(cns)   *)
(* and calls run on it, as the tests and the example of                    *)
(* get_equation_by_typeid do.                                              *)

\* longest constants vector a caller passes to make
MaxCns == 5

\* most calls of run on one instance
MaxRuns == 2

\* the fn params() items of the crate: those of the catalog and the two of
\* function/wave.rs
ParamsFns ==
    {EQUATIONS[k].params : k \in 1 .. Len(EQUATIONS)}
        \cup {"function::wave::Sine::params", "function::wave::Sawtooth::params"}

\* the constants a caller passes to make
ConstVals == {F(1), F(2)}

\* the slices a caller passes to run: empty or one value
RunInputs == SeqsUpTo(InputVals, 1)

EqInit ==
    /\ typeid \in ParamsFns
    /\ make_cns \in SeqsUpTo(ConstVals, MaxCns)
    /\ unit_inputs = <<>>
    /\ unit_outputs = <<>>
    /\ inputs = <<>>
    /\ outputs = <<>>
    /\ ssigmas = <<>>
    /\ eq_id = 0
    /\ amoeba_min = <<>>
    /\ sort_ties = "keep"
    /\ eq_instance = NoRet
    /\ runs = <<>>
    /\ pc = "call"
    /\ ids = <<>>
    /\ ths = <<>>
    /\ done_order = <<>>
    /\ eqs = <<>>
    /\ ret = NoRet

\* get_equation_by_typeid(typeid)
CallGetEquationByTypeid ==
    /\ pc = "call"
    /\ ret' = get_equation_by_typeid(typeid)
    /\ pc' = "unwrap"
    /\ UNCHANGED <<args, oracles, made, ids, ths, done_order, eqs>>

\* .unwrap() of the Option: panics on None
Unwrap ==
    /\ pc = "unwrap"
    /\ pc' = IF ret.kind = "None" THEN "panicked" ELSE "make"
    /\ UNCHANGED <<args, oracles, made, ids, ths, done_order, eqs, ret>>

\* let mut equation = (EQUATIONS[eq_index].new)(cns)
MakeEquation ==
    /\ pc = "make"
    /\ eq_instance' = Make(EQUATIONS[ret.val + 1].new, make_cns)
    /\ pc' = IF eq_instance'.kind = "panic" THEN "panicked" ELSE "run"
    /\ UNCHANGED <<args, oracles, runs, ids, ths, done_order, eqs, ret>>

\* equation.run(inp)
RunEquation ==
    /\ pc = "run"
    /\ Len(runs) < MaxRuns
    /\ \E inp \in RunInputs :
        LET r == Run(eq_instance, inp)
        IN  IF r.kind = "panic"
            THEN /\ runs' = Append(runs, [inp |-> inp, result |-> r])
                 /\ pc' = "panicked"
                 /\ UNCHANGED eq_instance
            ELSE /\ runs' = Append(runs, [inp |-> inp,
                                          result |-> [kind |-> "ok",
                                                      out |-> r.out]])
                 /\ eq_instance' = r.self
                 /\ UNCHANGED pc
    /\ UNCHANGED <<args, oracles, ids, ths, done_order, eqs, ret>>

EqNext ==
    \/ CallGetEquationByTypeid
    \/ Unwrap
    \/ MakeEquation
    \/ RunEquation

SpecEq == EqInit /\ [][EqNext]_vars

-----------------------------------------------------------------------------
(* Claims about the catalog's factories and instances, checked under       *)
(* SpecEq.                                                                 *)

\* the caller has called make
MakeCalled == eq_instance # NoRet

\* the caller holds an instance
Made == MakeCalled /\ eq_instance.kind # "panic"

\* C12 (constants length), as claimed: making an instance of a catalog entry
\* with a constants vector whose length differs from the entry's number of
\* constant units, shorter or longer, not empty for an entry without
\* constants, panics and yields no instance to run.
C12_WrongLengthIsFatal ==
    (MakeCalled /\ Len(make_cns) # Len(Signature(ret.val).cns)) =>
        /\ eq_instance.kind = "panic"
        /\ pc = "panicked"
        /\ runs = <<>>

C14_WaveSineFound ==
    (pc # "call" /\ typeid = "function::wave::Sine::params") =>
        /\ ret = Some(4)
        /\ pc # "panicked"

\* the constants an instance holds
Constants(self) ==
    CASE self.kind \in {"CirclePerimeter", "CircleArea", "SquarePerimeter",
                        "SquareArea"} -> <<>>
      [] self.kind = "Sine" ->
            <<self.amplitude, self.speed, self.phase, self.shift>>
      [] self.kind \in {"VelocityEquation", "VelocityByDistEquation",
                        "DistanceEquation"} ->
            <<self.initial_velocity, self.acceleration>>
      [] self.kind = "DistanceByVelEquation" ->
            <<self.initial_velocity, self.final_velocity>>

\* a new instance of the entry the caller looked up, from the same constants
Fresh == Make(EQUATIONS[ret.val + 1].new, make_cns)

\* C20 (history independence): whatever calls of run went before, a call
\* run(x) that returns gives what a new instance built from the same
\* constants gives for x, a vector of length 1, and the instance still
\* holds the constants it was made from.
C20_RunHistoryFree ==
    Made =>
        /\ Constants(eq_instance) = Constants(Fresh)
        /\ \A k \in 1 .. Len(runs) :
              runs[k].result.kind = "ok" =>
                /\ Len(runs[k].result.out) = 1
                /\ runs[k].result.out = Run(Fresh, runs[k].inp).out

\* an instance with constants has been run on 3 and then on 0, and the two
\* results differ
C20_Witness ==
    /\ Made
    /\ Len(Constants(eq_instance)) > 0
    /\ Len(runs) = 2
    /\ runs[1].inp = <<F(3)>>
    /\ runs[2].inp = <<F(0)>>
    /\ runs[1].result.kind = "ok"
    /\ runs[2].result.kind = "ok"
    /\ runs[1].result.out # runs[2].result.out

=============================================================================
